---- MODULE Spec2Model ----
(***************************************************************************)
(* A model of the film-viewing analytics pipeline:                         *)
(*   src/src/data_cleaning.py  clean_data, save_cleaned_data               *)
(*   src/src/features.py       get_category_views, get_top_movies          *)
(*   src/src/modeling.py       predict_top_category                        *)
(*   src/app.py                load_data, the sidebar filters, the KPIs    *)
(*                                                                         *)
(* A DataFrame is a record [dtype, rows]: dtype is the dtype of the two    *)
(* date columns ("object" while they hold text, "datetime64" once they     *)
(* hold timestamps) and rows is the sequence of its rows, each a record    *)
(* keyed by column name.  A timestamp is a number of clock ticks, a float  *)
(* is a record [kind, num, den] so that NaN and inf are values of the      *)
(* column, and Viewer_Rate is held in tenths of a rating point.            *)
(***************************************************************************)
EXTENDS Integers, Sequences, FiniteSets, TLC

\* ------------------------------------------------------------------ bounds
MaxRows == 2        \* rows of a raw table handed to clean_data
MaxFeatRows == 3    \* rows of a raw table in the aggregation runs
MaxDashRows == 2    \* rows of a raw table in the dashboard runs
TicksPerDay == 2    \* resolution of the wall clock within one day
MaxSeed == 2        \* number of distinct per-process hash seeds

DaysPerMonth == 30

\* ---------------------------------------------------------------- calendar
\* Four consecutive calendar days; day d starts at tick d * TicksPerDay.
Calendar ==
  << [text |-> "2025-12-30", year |-> 2025, month |-> 12],
     [text |-> "2025-12-31", year |-> 2025, month |-> 12],
     [text |-> "2026-01-01", year |-> 2026, month |-> 1],
     [text |-> "2026-01-02", year |-> 2026, month |-> 1] >>

NaT == -1           \* the missing timestamp
NaN == "nan"        \* the missing value of an object (text) column

Timestamp(d) == d * TicksPerDay
DayOf(ts) == ts \div TicksPerDay
dt_year(ts) == Calendar[DayOf(ts)].year
dt_month(ts) == Calendar[DayOf(ts)].month
\* Series.astype(str) / to_csv on a midnight timestamp: the ISO date
DateStr(ts) == IF ts = NaT THEN "NaT" ELSE Calendar[DayOf(ts)].text

\* pd.to_datetime(text, errors="coerce"): the timestamp of a date the text
\* spells, NaT for anything else (the empty string, "n/a", a missing cell)
ParseDate(text) ==
  IF \E d \in DOMAIN Calendar : Calendar[d].text = text
    THEN Timestamp(CHOOSE d \in DOMAIN Calendar : Calendar[d].text = text)
    ELSE NaT

to_datetime(dtype, cell) == IF dtype = "datetime64" THEN cell ELSE ParseDate(cell)

\* ------------------------------------------------------------------ floats
Float(n, d) == [kind |-> "num", num |-> n, den |-> d]
FloatNaN == [kind |-> "nan", num |-> 0, den |-> 1]
FloatInf == [kind |-> "inf", num |-> 0, den |-> 1]

\* int / int true division as numpy computes it: x/0 is inf, 0/0 is NaN
TrueDiv(n, d) ==
  IF d = 0 THEN (IF n = 0 THEN FloatNaN ELSE FloatInf) ELSE Float(n, d)

\* float / float for a dividend that is an integer
DivByFloat(n, f) ==
  IF f.kind # "num" THEN FloatNaN
  ELSE IF f.num = 0 THEN (IF n = 0 THEN FloatNaN ELSE FloatInf)
  ELSE Float(n * f.den, f.num)

\* ------------------------------------------------------------- sequences
Max(S) == CHOOSE m \in S : \A x \in S : x <= m

RECURSIVE SelectIdx(_, _)
\* the elements of s at the positions K, in their order in s
SelectIdx(s, K) ==
  IF K = {} THEN << >>
  ELSE LET m == Max(K) IN Append(SelectIdx(s, K \ {m}), s[m])

RECURSIVE SumOver(_, _)
SumOver(f, K) ==
  IF K = {} THEN 0
  ELSE LET k == CHOOSE x \in K : TRUE IN f[k] + SumOver(f, K \ {k})

TablesOver(pool, n) == UNION { [1..k -> pool] : k \in 0..n }

\* ------------------------------------------------------------- DataFrame
ObjectCols == {"Film_Name", "Category", "Language"}
DateCols == {"Release_Date", "Viewing_Month"}
FloatCols == {"months_since_release", "trending_score"}

\* DataFrame.isna for one cell of column col
isna(col, v) ==
  IF col \in DateCols THEN v = NaT
  ELSE IF col \in ObjectCols THEN v = NaN
  ELSE IF col \in FloatCols THEN v.kind = "nan"
  ELSE FALSE

has_null(r) == \E col \in DOMAIN r : isna(col, r[col])

\* drop_duplicates that removes nothing
drop_duplicates_none(rows) == rows

\* DataFrame.drop_duplicates(): keep the first row of each group of rows
\* that agree in every column
drop_duplicates(rows) ==
  SelectIdx(rows, { i \in DOMAIN rows : \A j \in 1..(i-1) : rows[j] # rows[i] })

\* dropna that lets every row through
dropna_keep_all(rows) == rows

\* DataFrame.dropna().reset_index(drop=True)
dropna(rows) == SelectIdx(rows, { i \in DOMAIN rows : ~has_null(rows[i]) })

\* hash(x) for a str x: a function of the text and the process's hash seed
Hash(seed, x) == [seed |-> seed, text |-> x]

\* the difference read at the clock's resolution instead of in whole days
days_between_ticks(today, release) == today - release

\* (today - Release_Date).dt.days: whole days, rounded towards minus infinity
days_between(today, release) == (today - release) \div TicksPerDay

\* Series.replace(0, 1)
replace_zero(d) == IF d = 0 THEN 1 ELSE d

derive(r, today, seed) ==
  LET days   == replace_zero(days_between(today, r.Release_Date))
      months == TrueDiv(days, DaysPerMonth)
  IN  [ Movie_ID |-> Hash(seed, r.Film_Name \o DateStr(r.Release_Date)
                                 \o r.Category \o r.Language),
        days_since_release |-> days,
        months_since_release |-> months,
        trending_score |-> DivByFloat(r.Number_of_Views, months) ] @@ r

\* The two date columns are assigned into the frame the caller passed
\* (lines 17-18); drop_duplicates returns a new frame (line 23), which
\* receives the derived columns and is returned.
clean_data(frame, today, seed) ==
  LET parsed == [ i \in DOMAIN frame.rows |->
                    [ frame.rows[i] EXCEPT
                        !.Release_Date = to_datetime(frame.dtype, @),
                        !.Viewing_Month = to_datetime(frame.dtype, @) ] ]
      kept == dropna(drop_duplicates(parsed))
  IN  [ arg |-> [dtype |-> "datetime64", rows |-> parsed],
        ret |-> [dtype |-> "datetime64",
                 rows |-> [ i \in DOMAIN kept |-> derive(kept[i], today, seed) ]] ]

\* ------------------------------------------------------------------ state
VARIABLES
  pc,        \* "raw", "cleaned", "recleaned"
  now,       \* the wall clock, in ticks
  seed,      \* the hash seed of this process
  df,        \* the caller's raw table, as the caller holds it
  cleaned,   \* clean_data(df)
  today,     \* pd.Timestamp.today() as read by that call
  again,     \* clean_data(cleaned)
  today2,    \* pd.Timestamp.today() as read by the second call
  result,    \* what the last call of an aggregation or of the decision rule returned
  csv,       \* data/Film_Dataset_Cleaned.csv
  page       \* the dashboard's last run: selections, df_filtered and the KPIs

vars == << pc, now, seed, df, cleaned, today, again, today2, result, csv, page >>

NoPage == [run |-> FALSE]

NoResult == [op |-> "none"]

NoFrame == [dtype |-> "datetime64", rows |-> << >>]

RawRow(film, rel, vm, cat, lang, views, rate) ==
  [ Film_Name |-> film, Release_Date |-> rel, Viewing_Month |-> vm,
    Category |-> cat, Language |-> lang, Number_of_Views |-> views,
    Viewer_Rate |-> rate ]

FirstTick == Timestamp(2)
LastTick == Timestamp(4) - 1

PoolClean ==
  { RawRow(f, rel, vm, "Horror", "EN", 100, 45) :
      f \in {"A", NaN},
      rel \in {"2025-12-31", "2026-01-01", ""},
      vm \in {"2025-12-30", "n/a"} }

Init ==
  /\ pc = "raw"
  /\ now = FirstTick
  /\ seed \in 1..MaxSeed
  /\ df \in { [dtype |-> "object", rows |-> t] : t \in TablesOver(PoolClean, MaxRows) }
  /\ cleaned = NoFrame
  /\ today = NaT
  /\ again = NoFrame
  /\ today2 = NaT
  /\ result = NoResult
  /\ csv = NoFrame
  /\ page = NoPage

Tick ==
  /\ pc \in {"raw", "cleaned"}
  /\ now < LastTick
  /\ now' = now + 1
  /\ UNCHANGED << pc, seed, df, cleaned, today, again, today2, result, csv, page >>

Clean ==
  /\ pc = "raw"
  /\ LET out == clean_data(df, now, seed)
     IN  /\ df' = out.arg
         /\ cleaned' = out.ret
  /\ today' = now
  /\ pc' = "cleaned"
  /\ UNCHANGED << now, seed, again, today2, result, csv, page >>

CleanAgain ==
  /\ pc = "cleaned"
  /\ LET out == clean_data(cleaned, now, seed)
     IN  /\ cleaned' = out.arg
         /\ again' = out.ret
  /\ today2' = now
  /\ pc' = "recleaned"
  /\ UNCHANGED << now, seed, df, today, result, csv, page >>

Next == Tick \/ Clean \/ CleanAgain

Spec == Init /\ [][Next]_vars

\* ------------------------------------------------------------ aggregation
\* every label of the model's tables, in lexicographic order
Labels == << "A", "B", "Comedy", "EN", "Horror", "SI" >>
LexRank(x) == CHOOSE k \in DOMAIN Labels : Labels[k] = x

RECURSIVE SortedLabels(_)
\* the labels of S in ascending order (groupby sorts its keys)
SortedLabels(S) ==
  IF S = {} THEN << >>
  ELSE LET m == CHOOSE x \in S : \A y \in S : LexRank(y) <= LexRank(x)
       IN  Append(SortedLabels(S \ {m}), m)

\* a groupby that reports the views of the first row of each group
groupby_first(rows, col) ==
  LET keys == SortedLabels({ rows[i][col] : i \in DOMAIN rows })
  IN  [ k \in DOMAIN keys |->
          [ key |-> keys[k],
            Number_of_Views |->
              rows[CHOOSE i \in DOMAIN rows :
                     /\ rows[i][col] = keys[k]
                     /\ \A j \in 1..(i-1) : rows[j][col] # keys[k]].Number_of_Views ] ]

\* df.groupby(col)["Number_of_Views"].sum(): one entry per distinct key, keys
\* ascending, each with the sum of Number_of_Views over the rows of that key
groupby_sum(rows, col) ==
  LET keys == SortedLabels({ rows[i][col] : i \in DOMAIN rows })
  IN  [ k \in DOMAIN keys |->
          [ key |-> keys[k],
            Number_of_Views |->
              SumOver([ i \in DOMAIN rows |-> rows[i].Number_of_Views ],
                      { i \in DOMAIN rows : rows[i][col] = keys[k] }) ] ]

\* .reset_index(): the key becomes the column Category
get_category_views(rows) ==
  LET g == groupby_sum(rows, "Category")
  IN  [ k \in DOMAIN g |->
          [ Category |-> g[k].key, Number_of_Views |-> g[k].Number_of_Views ] ]

\* Series.idxmin(): the key of the first entry that holds the minimum
idxmin(series) ==
  series[CHOOSE k \in DOMAIN series :
           /\ \A j \in DOMAIN series : series[j].Number_of_Views >= series[k].Number_of_Views
           /\ \A j \in 1..(k-1) : series[j].Number_of_Views > series[k].Number_of_Views].key

\* Series.idxmax(): the key of the first entry that holds the maximum
idxmax(series) ==
  series[CHOOSE k \in DOMAIN series :
           /\ \A j \in DOMAIN series : series[j].Number_of_Views <= series[k].Number_of_Views
           /\ \A j \in 1..(k-1) : series[j].Number_of_Views < series[k].Number_of_Views].key

predict_top_category(rows) == idxmax(groupby_sum(rows, "Category"))

\* the orders that put the smaller values first
OrdersAscending(rows, col) ==
  { p \in [DOMAIN rows -> DOMAIN rows] :
      /\ \A i, j \in DOMAIN rows : i # j => p[i] # p[j]
      /\ \A i, j \in DOMAIN rows : i < j => rows[p[i]][col] <= rows[p[j]][col] }

\* df.sort_values(by=col, ascending=False) with the default kind="quicksort",
\* which is not a stable sort: every order of the index labels that puts the
\* larger values first is a possible outcome, rows of equal value in any order
OrdersDescending(rows, col) ==
  { p \in [DOMAIN rows -> DOMAIN rows] :
      /\ \A i, j \in DOMAIN rows : i # j => p[i] # p[j]
      /\ \A i, j \in DOMAIN rows : i < j => rows[p[i]][col] >= rows[p[j]][col] }

Min2(a, b) == IF a < b THEN a ELSE b

\* .head(n) of the rows taken in the order p; each row keeps its index label
head(rows, p, n) ==
  [ k \in 1..Min2(n, Len(rows)) |-> [index |-> p[k], row |-> rows[p[k]]] ]

get_top_movies(rows, n) ==
  { head(rows, p, n) : p \in OrdersDescending(rows, "Number_of_Views") }

PoolFeat ==
  { RawRow(f, "2025-12-30", "2025-12-30", cv.cat, "EN", cv.views, 45) :
      f \in {"A", "B"},
      cv \in { [cat |-> "Comedy", views |-> 50],
               [cat |-> "Horror", views |-> 50],
               [cat |-> "Horror", views |-> 100] } }

InitFeat ==
  /\ pc = "raw"
  /\ now = FirstTick
  /\ seed = 1
  /\ df \in { [dtype |-> "object", rows |-> t] : t \in TablesOver(PoolFeat, MaxFeatRows) }
  /\ cleaned = NoFrame
  /\ today = NaT
  /\ again = NoFrame
  /\ today2 = NaT
  /\ result = NoResult
  /\ csv = NoFrame
  /\ page = NoPage

TopMovies ==
  /\ pc = "cleaned"
  /\ \E n \in 0..MaxFeatRows :
       \E top \in get_top_movies(cleaned.rows, n) :
         result' = [op |-> "get_top_movies", n |-> n, value |-> top]
  /\ UNCHANGED << pc, now, seed, df, cleaned, today, again, today2, csv, page >>

CategoryViews ==
  /\ pc = "cleaned"
  /\ result' = [op |-> "get_category_views", value |-> get_category_views(cleaned.rows)]
  /\ UNCHANGED << pc, now, seed, df, cleaned, today, again, today2, csv, page >>

\* idxmax of an empty Series raises ValueError
PredictTopCategory ==
  /\ pc = "cleaned"
  /\ result' = IF Len(cleaned.rows) = 0
                 THEN [op |-> "predict_top_category", raised |-> "ValueError"]
                 ELSE [op |-> "predict_top_category", raised |-> "",
                       value |-> predict_top_category(cleaned.rows)]
  /\ UNCHANGED << pc, now, seed, df, cleaned, today, again, today2, csv, page >>

NextFeat == Clean \/ TopMovies \/ CategoryViews \/ PredictTopCategory

SpecFeat == InitFeat /\ [][NextFeat]_vars

\* -------------------------------------------------------------- dashboard
\* df.to_csv(path, index=False): the date columns are written as text
to_csv(frame) ==
  [ dtype |-> "object",
    rows |-> [ i \in DOMAIN frame.rows |->
                 [ frame.rows[i] EXCEPT !.Release_Date = DateStr(@),
                                        !.Viewing_Month = DateStr(@) ] ] ]

\* pd.read_csv and pd.to_datetime of the two date columns
load_data(file) ==
  [ dtype |-> "datetime64",
    rows |-> [ i \in DOMAIN file.rows |->
                 [ file.rows[i] EXCEPT !.Release_Date = ParseDate(@),
                                       !.Viewing_Month = ParseDate(@) ] ] ]

\* f"{m:02d}" and int(x)
MonthText == << "01", "02", "03", "04", "05", "06",
                "07", "08", "09", "10", "11", "12" >>
FormatMonth(m) == MonthText[m]
IntOfMonth(x) == CHOOSE m \in DOMAIN MonthText : MonthText[m] = x

\* an option of a selectbox: 'All', or one of the values of the column
All == [all |-> TRUE]
Pick(v) == [all |-> FALSE, value |-> v]
Options(S) == {All} \cup { Pick(v) : v \in S }

Column(rows, col) == { rows[i][col] : i \in DOMAIN rows }
Min(S) == CHOOSE m \in S : \A x \in S : m <= x

\* the values of the slider: from the smallest rating to the largest, step 0.1
SliderValues(rows) ==
  Min(Column(rows, "Viewer_Rate")) .. Max(Column(rows, "Viewer_Rate"))

\* df_filtered[df_filtered[col] == value]: the rows that pass, in order
filter_category(rows, sel) ==
  IF sel.all THEN rows
  ELSE SelectIdx(rows, { i \in DOMAIN rows : rows[i].Category = sel.value })

filter_language(rows, sel) ==
  IF sel.all THEN rows
  ELSE SelectIdx(rows, { i \in DOMAIN rows : rows[i].Language = sel.value })

filter_month(rows, sel) ==
  IF sel.all THEN rows
  ELSE SelectIdx(rows, { i \in DOMAIN rows :
                           dt_month(rows[i].Viewing_Month) = IntOfMonth(sel.value) })

\* a year filter that lets every row through
filter_year_off(rows, sel) == rows

filter_year(rows, sel) ==
  IF sel.all THEN rows
  ELSE SelectIdx(rows, { i \in DOMAIN rows :
                           dt_year(rows[i].Release_Date) = sel.value })

filter_rating(rows, min_rating) ==
  SelectIdx(rows, { i \in DOMAIN rows : rows[i].Viewer_Rate >= min_rating })

\* lines 104-123
apply_filters(rows, cat, lang, month, year, min_rating) ==
  filter_rating(
    filter_year(
      filter_month(
        filter_language(
          filter_category(rows, cat), lang), month), year), min_rating)

\* lines 131-135; the mean of no ratings is NaN
kpis(rows) ==
  [ total_films |-> Len(rows),
    total_views |-> SumOver([ i \in DOMAIN rows |-> rows[i].Number_of_Views ], DOMAIN rows),
    avg_rating |-> TrueDiv(SumOver([ i \in DOMAIN rows |-> rows[i].Viewer_Rate ],
                                   DOMAIN rows), Len(rows)),
    most_viewed_lang |-> IF Len(rows) > 0 THEN idxmax(groupby_sum(rows, "Language"))
                         ELSE "N/A",
    top_category |-> IF Len(rows) > 0 THEN idxmax(groupby_sum(rows, "Category"))
                     ELSE "N/A" ]

\* Category and Language vary freely; the four profiles pair every viewing
\* month with every release year and every language with both
PoolDash ==
  { RawRow("A", prof.rel, prof.vm, cat, prof.lang, prof.views, prof.rate) :
      cat \in {"Comedy", "Horror"},
      prof \in { [lang |-> "EN", vm |-> "2025-12-30", rel |-> "2025-12-31",
                  rate |-> 44, views |-> 50],
                 [lang |-> "EN", vm |-> "2026-01-02", rel |-> "2026-01-01",
                  rate |-> 45, views |-> 100],
                 [lang |-> "SI", vm |-> "2025-12-30", rel |-> "2026-01-01",
                  rate |-> 45, views |-> 50],
                 [lang |-> "SI", vm |-> "2026-01-02", rel |-> "2025-12-31",
                  rate |-> 44, views |-> 100] } }

InitDash ==
  /\ pc = "raw"
  /\ now = FirstTick
  /\ seed = 1
  /\ df \in { [dtype |-> "object", rows |-> t] : t \in TablesOver(PoolDash, MaxDashRows) }
  /\ cleaned = NoFrame
  /\ today = NaT
  /\ again = NoFrame
  /\ today2 = NaT
  /\ result = NoResult
  /\ csv = NoFrame
  /\ page = NoPage

SaveCleaned ==
  /\ pc = "cleaned"
  /\ csv' = to_csv(cleaned)
  /\ pc' = "saved"
  /\ UNCHANGED << now, seed, df, cleaned, today, again, today2, result, page >>

\* df = load_data(): the cached table every run of the page starts from
Loaded == load_data(csv).rows

\* Series.idxmax() / Series.idxmin() of a column of df_filtered: the position
\* of the first row that holds the largest / smallest value
idxmax_row(rows, col) ==
  CHOOSE i \in DOMAIN rows :
    /\ \A j \in DOMAIN rows : rows[j][col] <= rows[i][col]
    /\ \A j \in 1..(i-1) : rows[j][col] < rows[i][col]

idxmin_row(rows, col) ==
  CHOOSE i \in DOMAIN rows :
    /\ \A j \in DOMAIN rows : rows[j][col] >= rows[i][col]
    /\ \A j \in 1..(i-1) : rows[j][col] > rows[i][col]

\* Lines 383-403.  The four callouts take idxmax / idxmin of df_filtered with
\* no test of its length; on an empty Series idxmax raises ValueError, at
\* line 386, and nothing in the script catches it.
callout_metrics(rows) ==
  IF Len(rows) = 0
    THEN [ raised |-> "ValueError", line |-> 386 ]
    ELSE [ raised |-> "", line |-> 0,
           highest_rated |-> rows[idxmax_row(rows, "Viewer_Rate")],
           lowest_rated |-> rows[idxmin_row(rows, "Viewer_Rate")],
           most_viewed |-> rows[idxmax_row(rows, "Number_of_Views")],
           least_viewed |-> rows[idxmin_row(rows, "Number_of_Views")] ]

\* One run of the page script with the sidebar widgets holding the given
\* values: the filters and the KPI row (lines 36-155), the callout metrics
\* (lines 383-403) and the footer (lines 410-417), which the run reaches
\* only if nothing before it raised.  The leaderboard and the charts in
\* between draw df_filtered and compute nothing the page keeps.
Render(selected_category, selected_language, selected_month, selected_year, min_rating) ==
  LET df_filtered == apply_filters(Loaded, selected_category, selected_language,
                                   selected_month, selected_year, min_rating)
  IN  [ run |-> TRUE,
        df |-> Loaded,
        selected_category |-> selected_category,
        selected_language |-> selected_language,
        selected_month |-> selected_month,
        selected_year |-> selected_year,
        min_rating |-> min_rating,
        df_filtered |-> df_filtered,
        kpi |-> kpis(df_filtered),
        callouts |-> callout_metrics(df_filtered),
        footer |-> callout_metrics(df_filtered).raised = "" ]

\* The first run of a session: every selectbox at index 0 ('All'), the slider
\* at the smallest rating.  The sidebar needs a table with at least one row:
\* the slider's range is the smallest and the largest rating of the table.
FirstRun ==
  /\ pc = "saved"
  /\ Len(csv.rows) > 0
  /\ page' = Render(All, All, All, All, Min(Column(Loaded, "Viewer_Rate")))
  /\ pc' = "page"
  /\ UNCHANGED << now, seed, df, cleaned, today, again, today2, result, csv >>

\* The viewer changes one widget; the script runs again from the top with
\* the other widgets as they were.
SelectCategory ==
  /\ pc = "page"
  /\ \E c \in Options(Column(page.df, "Category")) :
       page' = Render(c, page.selected_language, page.selected_month,
                      page.selected_year, page.min_rating)
  /\ UNCHANGED << pc, now, seed, df, cleaned, today, again, today2, result, csv >>

SelectLanguage ==
  /\ pc = "page"
  /\ \E l \in Options(Column(page.df, "Language")) :
       page' = Render(page.selected_category, l, page.selected_month,
                      page.selected_year, page.min_rating)
  /\ UNCHANGED << pc, now, seed, df, cleaned, today, again, today2, result, csv >>

SelectMonth ==
  /\ pc = "page"
  /\ \E m \in Options({ FormatMonth(dt_month(page.df[i].Viewing_Month)) :
                          i \in DOMAIN page.df }) :
       page' = Render(page.selected_category, page.selected_language, m,
                      page.selected_year, page.min_rating)
  /\ UNCHANGED << pc, now, seed, df, cleaned, today, again, today2, result, csv >>

SelectYear ==
  /\ pc = "page"
  /\ \E y \in Options({ dt_year(page.df[i].Release_Date) : i \in DOMAIN page.df }) :
       page' = Render(page.selected_category, page.selected_language,
                      page.selected_month, y, page.min_rating)
  /\ UNCHANGED << pc, now, seed, df, cleaned, today, again, today2, result, csv >>

SlideRating ==
  /\ pc = "page"
  /\ \E r \in SliderValues(page.df) :
       page' = Render(page.selected_category, page.selected_language,
                      page.selected_month, page.selected_year, r)
  /\ UNCHANGED << pc, now, seed, df, cleaned, today, again, today2, result, csv >>

NextDash ==
  \/ Clean \/ SaveCleaned \/ FirstRun
  \/ SelectCategory \/ SelectLanguage \/ SelectMonth \/ SelectYear \/ SlideRating

SpecDash == InitDash /\ [][NextDash]_vars

\* ==================================================== properties: cleaning
RawCols == { "Film_Name", "Release_Date", "Viewing_Month", "Category",
             "Language", "Number_of_Views", "Viewer_Rate" }
DerivedCols == { "Movie_ID", "days_since_release", "months_since_release",
                 "trending_score" }

\* a row restricted to the columns of the raw table
Original(r) == [ c \in RawCols |-> r[c] ]

\* the rows of a frame with both date columns read as timestamps
DatesParsed(frame) ==
  [ i \in DOMAIN frame.rows |->
      [ c \in RawCols |->
          IF c \in DateCols THEN to_datetime(frame.dtype, frame.rows[i][c])
          ELSE frame.rows[i][c] ] ]

DateFailed(r) == r.Release_Date = NaT \/ r.Viewing_Month = NaT

\* the table returned by the n-th call of clean_data, and the table it was given
Returned(n) == IF n = 1 THEN cleaned ELSE again
Given(n) == IF n = 1 THEN df ELSE cleaned
Calls == IF pc = "raw" THEN {} ELSE IF pc = "cleaned" THEN {1} ELSE {1, 2}

\* C1: the table clean_data returns holds no missing value in any column,
\* original or derived, and no row of the input whose Release_Date or
\* Viewing_Month failed to parse is among its rows.
C1_NoNullInCleaned ==
  \A n \in Calls :
    /\ \A i \in DOMAIN Returned(n).rows :
         /\ DOMAIN Returned(n).rows[i] = RawCols \cup DerivedCols
         /\ \A c \in RawCols \cup DerivedCols : ~isna(c, Returned(n).rows[i][c])
    /\ \A j \in DOMAIN Given(n).rows :
         DateFailed(DatesParsed(Given(n))[j]) =>
           \A i \in DOMAIN Returned(n).rows :
             Original(Returned(n).rows[i]) # DatesParsed(Given(n))[j]

\* a raw table with an unparseable date, a missing film name and a good row
\* has been cleaned, and the good row came through
C1_Witness ==
  /\ pc = "cleaned"
  /\ \E j \in DOMAIN df.rows : DateFailed(df.rows[j])
  /\ \E j \in DOMAIN df.rows : ~has_null(df.rows[j])
  /\ Len(cleaned.rows) = 1

\* C2: no two rows of the returned table agree in every column, and every
\* input row that has no null after date parsing is found exactly once in
\* the returned table, however many copies of it the input holds.
C2_NoDuplicateInCleaned ==
  \A n \in Calls :
    /\ \A i, k \in DOMAIN Returned(n).rows :
         i # k => Returned(n).rows[i] # Returned(n).rows[k]
    /\ \A j \in DOMAIN Given(n).rows :
         ~has_null(DatesParsed(Given(n))[j]) =>
           Cardinality({ i \in DOMAIN Returned(n).rows :
                           Original(Returned(n).rows[i]) = DatesParsed(Given(n))[j] }) = 1

\* two identical complete rows went in and one row came out
C2_Witness ==
  /\ pc = "cleaned"
  /\ Len(df.rows) = 2
  /\ df.rows[1] = df.rows[2]
  /\ ~has_null(df.rows[1])
  /\ Len(cleaned.rows) = 1

\* C3: in every row of the returned table days_since_release is at least 1
\* and months_since_release is at least 1/30, whether the release date is
\* before, on or after today.
C3_MonthsAtLeastOneThirtieth ==
  \A n \in Calls :
    \A i \in DOMAIN Returned(n).rows :
      LET r == Returned(n).rows[i]
      IN  /\ r.days_since_release >= 1
          /\ r.months_since_release.kind = "num"
          /\ r.months_since_release.num * DaysPerMonth >= r.months_since_release.den

\* C4: a call of clean_data leaves the table the caller passed in as it was:
\* same dtypes, same values, no column added.
C4_InputUnchanged ==
  [][ (pc = "raw" /\ pc' = "cleaned") =>
        (df'.dtype = df.dtype /\ df'.rows = df.rows) ]_vars

\* C5: cleaning a table clean_data returned, on the same calendar date and in
\* the same process, returns that table: same rows, same order, same values.
C5_Idempotent ==
  (pc = "recleaned" /\ DayOf(today2) = DayOf(today)) =>
    /\ again.dtype = cleaned.dtype
    /\ again.rows = cleaned.rows

\* a cleaned table of two rows was cleaned again later on the same day
C5_Witness ==
  /\ pc = "recleaned"
  /\ DayOf(today2) = DayOf(today)
  /\ today2 > today
  /\ Len(cleaned.rows) = 2
  /\ Len(again.rows) = 2

\* ================================================= properties: aggregation
Views(i) == cleaned.rows[i].Number_of_Views
ReturnedLabels == { result.value[k].index : k \in DOMAIN result.value }

\* C6: for N up to the row count, get_top_movies returns exactly N rows of
\* the table, in descending order of Number_of_Views, and no row left out
\* has more views than a row returned.
C6_TopNCorrect ==
  (result.op = "get_top_movies" /\ result.n <= Len(cleaned.rows)) =>
    /\ Len(result.value) = result.n
    /\ \A k \in DOMAIN result.value :
         /\ result.value[k].index \in DOMAIN cleaned.rows
         /\ result.value[k].row = cleaned.rows[result.value[k].index]
    /\ \A k, l \in DOMAIN result.value :
         k < l => /\ result.value[k].index # result.value[l].index
                  /\ result.value[k].row.Number_of_Views
                       >= result.value[l].row.Number_of_Views
    /\ \A i \in ReturnedLabels :
         \A j \in DOMAIN cleaned.rows \ ReturnedLabels : Views(i) >= Views(j)

\* the top 2 of three rows, the row left out having fewer views than one kept
C6_Witness ==
  /\ result.op = "get_top_movies"
  /\ result.n = 2
  /\ Len(cleaned.rows) = 3
  /\ \E i \in ReturnedLabels :
       \E j \in DOMAIN cleaned.rows \ ReturnedLabels : Views(i) > Views(j)

\* C7: get_top_movies orders rows of equal Number_of_Views as the table
\* does, and at the cut-off keeps the earlier of two such rows.
C7_TiesInInputOrder ==
  result.op = "get_top_movies" =>
    /\ \A k, l \in DOMAIN result.value :
         (k < l /\ result.value[k].row.Number_of_Views
                     = result.value[l].row.Number_of_Views)
           => result.value[k].index < result.value[l].index
    /\ \A i \in ReturnedLabels :
         \A j \in DOMAIN cleaned.rows \ ReturnedLabels :
           Views(i) = Views(j) => i < j

\* C8: on a non-empty table the category predict_top_category returns is one
\* whose entry in get_category_views holds the largest Number_of_Views there.
C8_PredictedIsMax ==
  (result.op = "predict_top_category" /\ Len(cleaned.rows) > 0) =>
    LET cv == get_category_views(cleaned.rows)
    IN  /\ result.raised = ""
        /\ \E k \in DOMAIN cv :
             /\ cv[k].Category = result.value
             /\ \A j \in DOMAIN cv : cv[j].Number_of_Views <= cv[k].Number_of_Views

\* a prediction over two categories of different totals, the larger made of two rows
C8_Witness ==
  /\ result.op = "predict_top_category"
  /\ Len(cleaned.rows) = 3
  /\ LET cv == get_category_views(cleaned.rows)
     IN  /\ Len(cv) = 2
         /\ cv[1].Number_of_Views # cv[2].Number_of_Views
         /\ \E k \in DOMAIN cv :
              /\ cv[k].Category = result.value
              /\ Cardinality({ i \in DOMAIN cleaned.rows :
                                 cleaned.rows[i].Category = result.value }) = 2

\* C9: get_category_views returns one row per distinct Category of the
\* table, and its Number_of_Views add up to the Number_of_Views of all rows.
C9_SumConserved ==
  result.op = "get_category_views" =>
    /\ { result.value[k].Category : k \in DOMAIN result.value }
         = { cleaned.rows[i].Category : i \in DOMAIN cleaned.rows }
    /\ \A k, l \in DOMAIN result.value :
         k # l => result.value[k].Category # result.value[l].Category
    /\ SumOver([ k \in DOMAIN result.value |-> result.value[k].Number_of_Views ],
               DOMAIN result.value)
         = SumOver([ i \in DOMAIN cleaned.rows |-> Views(i) ], DOMAIN cleaned.rows)

\* category views of three rows in two categories
C9_Witness ==
  /\ result.op = "get_category_views"
  /\ Len(cleaned.rows) = 3
  /\ Len(result.value) = 2

\* =================================================== properties: dashboard
\* a row passes a selectbox filter set to 'All', or else holds the chosen value
Passes(r) ==
  /\ page.selected_category.all \/ r.Category = page.selected_category.value
  /\ page.selected_language.all \/ r.Language = page.selected_language.value
  /\ page.selected_month.all
       \/ Calendar[DayOf(r.Viewing_Month)].month = IntOfMonth(page.selected_month.value)
  /\ page.selected_year.all
       \/ Calendar[DayOf(r.Release_Date)].year = page.selected_year.value
  /\ r.Viewer_Rate >= page.min_rating

Passing == { i \in DOMAIN page.df : Passes(page.df[i]) }
ViewsOfPassing(col, v) ==
  SumOver([ i \in DOMAIN page.df |-> page.df[i].Number_of_Views ],
          { i \in Passing : page.df[i][col] = v })

\* v is a value of col among the passing rows with the largest total of views
TopOfPassing(col, v) ==
  /\ \E i \in Passing : page.df[i][col] = v
  /\ \A i \in Passing : ViewsOfPassing(col, page.df[i][col]) <= ViewsOfPassing(col, v)

\* C10: df_filtered is the rows of the loaded table that pass every active
\* filter at once, in the table's order, and the five KPIs are those of
\* df_filtered: its row count, the sum of its views, the mean of its ratings,
\* and the language and the category with the most views in it.
C10_FiltersConjoinedKpisOnSubset ==
  page.run =>
    /\ page.df_filtered = SelectIdx(page.df, Passing)
    /\ page.kpi.total_films = Cardinality(Passing)
    /\ page.kpi.total_views
         = SumOver([ i \in DOMAIN page.df |-> page.df[i].Number_of_Views ], Passing)
    /\ IF Passing = {}
         THEN /\ page.kpi.avg_rating.kind = "nan"
              /\ page.kpi.most_viewed_lang = "N/A"
              /\ page.kpi.top_category = "N/A"
         ELSE /\ page.kpi.avg_rating.kind = "num"
              /\ page.kpi.avg_rating.den = Cardinality(Passing)
              /\ page.kpi.avg_rating.num
                   = SumOver([ i \in DOMAIN page.df |-> page.df[i].Viewer_Rate ], Passing)
              /\ TopOfPassing("Language", page.kpi.most_viewed_lang)
              /\ TopOfPassing("Category", page.kpi.top_category)

\* two filters are active, one row passes both and one row fails one of them,
\* and the top category of the subset is not a top category of the table
C10_Witness ==
  /\ page.run
  /\ ~page.selected_language.all
  /\ ~page.selected_year.all
  /\ Len(page.df) = 2
  /\ Len(page.df_filtered) = 1
  /\ page.kpi.top_category # kpis(page.df).top_category

\* C11: when the selections leave no row in df_filtered, the KPI row shows
\* its placeholders, the callout metrics end without raising, and the run
\* reaches the footer.
C11_EmptySubsetRendersToFooter ==
  (page.run /\ Len(page.df_filtered) = 0) =>
    /\ page.kpi.most_viewed_lang = "N/A"
    /\ page.kpi.top_category = "N/A"
    /\ page.callouts.raised = ""
    /\ page.footer

====
